---------------------------- MODULE Spec2Model ----------------------------
(***************************************************************************)
(* Model of the mouse-tracker repository:                                  *)
(*   src/analyze_mouse_data.py  MouseDataAnalyzer, analyze_mouse_csv,      *)
(*                              the __main__ entry point                   *)
(*   src/visualize_analysis.py  main                                       *)
(*   src/mouse_tracker.py       the recorder (listener + hotkey threads)   *)
(*                                                                         *)
(* Units.  Times are integers counting ticks of 0.05 s, so that the        *)
(* literals of the source are whole numbers: 0.5 s = 10 ticks,             *)
(* 0.1 s = 2 ticks; the 0.001 s substitute for a zero time step is the     *)
(* rational 1/50 tick.  Positions are whole pixels.  Every derived         *)
(* quantity (velocity, variance, efficiency, percentile) is an exact       *)
(* rational <<numerator, denominator>>; floating-point rounding is not     *)
(* modelled.                                                               *)
(***************************************************************************)
EXTENDS Integers, Sequences, FiniteSets, TLC

(***************************************************************************)
(* Exact rational arithmetic (stands for float64 arithmetic of numpy).     *)
(***************************************************************************)
Abs(n) == IF n < 0 THEN -n ELSE n

RECURSIVE GCD(_, _)
GCD(a, b) == IF b = 0 THEN a ELSE GCD(b, a % b)

Rat(n, d) ==
    LET s == IF d < 0 THEN -1 ELSE 1
        g == GCD(Abs(n), Abs(d))
    IN  <<(s * n) \div g, (s * d) \div g>>

FromInt(n) == <<n, 1>>
RAdd(a, b) == Rat(a[1] * b[2] + b[1] * a[2], a[2] * b[2])
RSub(a, b) == Rat(a[1] * b[2] - b[1] * a[2], a[2] * b[2])
RMul(a, b) == Rat(a[1] * b[1], a[2] * b[2])
RDiv(a, b) == Rat(a[1] * b[2], a[2] * b[1])
RLt(a, b) == a[1] * b[2] < b[1] * a[2]
RLe(a, b) == a[1] * b[2] <= b[1] * a[2]
RGt(a, b) == RLt(b, a)
RGe(a, b) == RLe(b, a)

\* a function on 1..n as a list (a python list, a numpy array): the same value,
\* held element by element
List(f) == f \o <<>>

RECURSIVE RSum(_)
RSum(s) == IF s = <<>> THEN FromInt(0) ELSE RAdd(Head(s), RSum(Tail(s)))

RECURSIVE ISum(_)
ISum(s) == IF s = <<>> THEN 0 ELSE Head(s) + ISum(Tail(s))

\* np.mean
Mean(s) == RDiv(RSum(s), FromInt(Len(s)))

\* np.var: the population variance, mean of squared deviations from the mean
Variance(s) ==
    LET m == Mean(s)
        d == List([i \in 1..Len(s) |-> RSub(s[i], m)])
    IN  Mean(List([i \in 1..Len(s) |-> RMul(d[i], d[i])]))

\* np.sqrt(dx**2 + dy**2) and scipy's euclidean, exact on the perfect squares
\* the bounded inputs produce (steps that are multiples of (3,4))
Hypot(dx, dy) ==
    LET a == Abs(dx)
        b == Abs(dy)
    IN  CHOOSE r \in (IF a < b THEN b ELSE a)..(a + b) : r * r = a * a + b * b

\* python's None
None == [none |-> TRUE]

(***************************************************************************)
(* Program constants, in ticks of 0.05 s and in pixels.                    *)
(***************************************************************************)
TicksPerSecond  == 20    \* scale of the model's clock
GapThreshold    == 10    \* `> 0.5` seconds, identify_aiming_events
MinMoveSamples  == 10    \* `len(move_data) < 10`
MinPoints       == 3     \* `len(event_data) < 3`
FilterMinLen    == 10    \* `len(velocities) > 10`
ZeroDtPerTick   == 50    \* dt == 0 becomes 0.001 s = 1/50 tick
PipelineMinDuration == 2   \* analyze_mouse_csv passes min_duration=0.1
PipelineMinDistance == 30  \* analyze_mouse_csv passes min_distance=30
DefaultMinDuration  == 2   \* default min_duration=0.1
DefaultMinDistance  == 50  \* default min_distance=50
JitterPercentile     == 70
VelocityVarPercentile == 70
EfficiencyPercentile == 30

(***************************************************************************)
(* MouseDataAnalyzer.calculate_movement_metrics                            *)
(***************************************************************************)
\* np.diff
Diff(s) == List([i \in 1..(Len(s) - 1) |-> s[i + 1] - s[i]])

\* dt[dt == 0] = 0.001
SubstituteZeroDt(dt) ==
    List([i \in 1..Len(dt) |->
            IF dt[i] = 0 THEN Rat(1, ZeroDtPerTick) ELSE FromInt(dt[i])])

\* np.sqrt(dx**2 + dy**2), elementwise
StepLengths(event_data) ==
    List([i \in 1..(Len(event_data) - 1) |->
            Hypot(event_data[i + 1].x - event_data[i].x,
                  event_data[i + 1].y - event_data[i].y)])

\* signal.butter(3, 0.3, 'high') + signal.filtfilt + mean(abs(.)): an IIR filter
\* has no exact rational model here.  The result is an opaque token, so any
\* comparison of it is an evaluation error; the bounds keep every sequence at
\* FilterMinLen velocities or fewer, where this branch is not taken.
FilteredJitter(velocities) == [butter_filtfilt |-> velocities]

\* The metrics of a sequence, None below MinPoints samples.  The field
\* acceleration_variance (lines 47, 55, 74), which no code of the repository
\* reads, is left out: its squares exceed 32-bit integers.
CalculateMovementMetrics(event_data) ==
    IF Len(event_data) < MinPoints THEN None
    ELSE
    LET n          == Len(event_data)
        timestamps == List([i \in 1..n |-> event_data[i].time])
        dt         == SubstituteZeroDt(Diff(timestamps))
        steps      == StepLengths(event_data)
        velocities == List([i \in 1..(n - 1) |-> RDiv(FromInt(steps[i]), dt[i])])
        total_distance == ISum(steps)
        straight_line_distance ==
            Hypot(event_data[n].x - event_data[1].x, event_data[n].y - event_data[1].y)
        velocity_variance ==
            IF Len(velocities) > 1 THEN Variance(velocities) ELSE FromInt(0)
        path_efficiency ==
            IF total_distance > 0
            THEN Rat(straight_line_distance, total_distance)
            ELSE FromInt(0)
        jitter_score ==
            IF Len(velocities) > FilterMinLen
            THEN FilteredJitter(velocities)
            ELSE velocity_variance
    IN  [duration               |-> timestamps[n] - timestamps[1],
         total_distance         |-> total_distance,
         straight_line_distance |-> straight_line_distance,
         path_efficiency        |-> path_efficiency,
         avg_velocity           |-> Mean(velocities),
         velocity_variance      |-> velocity_variance,
         jitter_score           |-> jitter_score,
         num_points             |-> n]

(***************************************************************************)
(* MouseDataAnalyzer.identify_aiming_events                                *)
(***************************************************************************)
\* self.data[self.data['event'] == 'move']: the move rows, each with the
\* position it had in the frame (its index label) kept in field pos
RECURSIVE FilterMoves(_, _)
FilterMoves(frame, k) ==
    IF k > Len(frame) THEN <<>>
    ELSE IF frame[k].event = "move"
         THEN <<[time |-> frame[k].time, x |-> frame[k].x, y |-> frame[k].y, pos |-> k]>>
              \o FilterMoves(frame, k + 1)
         ELSE FilterMoves(frame, k + 1)

\* the least time among the rows numbered in S
MinTime(rows, S) == CHOOSE t \in {rows[i].time : i \in S} :
                        \A i \in S : t <= rows[i].time

\* every order in which the members of the set G can be listed
Listings(G) ==
    {p \in [1..Cardinality(G) -> G] :
        \A a, b \in 1..Cardinality(G) : a # b => p[a] # p[b]}

\* sort_values('time') with its default kind='quicksort': an ascending sort that
\* is not stable, so rows of equal time may come out in any order.  The set of
\* all orders (sequences of row numbers) the sort may return: the rows of the
\* least time in any order, then the others sorted.
RECURSIVE SortOrders(_, _)
SortOrders(rows, S) ==
    IF S = {} THEN {<<>>}
    ELSE LET m    == MinTime(rows, S)
             tied == {j \in S : rows[j].time = m}
             rest == SortOrders(rows, S \ tied)
         IN  {first \o after : first \in Listings(tied), after \in rest}

SortValues(rows) == {List([k \in 1..Len(rows) |-> rows[ord[k]]]) :
                        ord \in SortOrders(rows, 1..Len(rows))}

\* metrics['start_time'] = ... metrics['end_pos'] = ... (lines 110-113, 131-134)
WithEndpoints(metrics, seq_df) ==
    [duration               |-> metrics.duration,
     total_distance         |-> metrics.total_distance,
     straight_line_distance |-> metrics.straight_line_distance,
     path_efficiency        |-> metrics.path_efficiency,
     avg_velocity           |-> metrics.avg_velocity,
     velocity_variance      |-> metrics.velocity_variance,
     jitter_score           |-> metrics.jitter_score,
     num_points             |-> metrics.num_points,
     start_time |-> seq_df[1].time,
     end_time   |-> seq_df[Len(seq_df)].time,
     start_pos  |-> <<seq_df[1].x, seq_df[1].y>>,
     end_pos    |-> <<seq_df[Len(seq_df)].x, seq_df[Len(seq_df)].y>>]

\* "Process previous sequence" inside the loop: the events it appends
ProcessPrevious(current_sequence, min_duration, min_distance) ==
    LET metrics == CalculateMovementMetrics(current_sequence)
    IN  IF /\ metrics # None
           /\ metrics.duration >= min_duration
           /\ metrics.total_distance >= min_distance
        THEN <<WithEndpoints(metrics, current_sequence)>>
        ELSE <<>>

\* ProcessFinal without the test of total_distance
ProcessFinal_NoDistance(current_sequence, min_duration, min_distance) ==
    LET metrics == CalculateMovementMetrics(current_sequence)
    IN  IF metrics # None /\ metrics.duration >= min_duration
        THEN <<WithEndpoints(metrics, current_sequence)>>
        ELSE <<>>

\* "Process final sequence" after the loop: the events it appends
ProcessFinal(current_sequence, min_duration, min_distance) ==
    LET metrics == CalculateMovementMetrics(current_sequence)
    IN  IF /\ metrics # None
           /\ metrics.duration >= min_duration
           /\ metrics.total_distance >= min_distance
        THEN <<WithEndpoints(metrics, current_sequence)>>
        ELSE <<>>

\* StartsNewSequence with >= for >
StartsNewSequence_GE(time, last_time, idx) ==
    time - last_time >= GapThreshold \/ idx = 0

\* the condition of line 100; idx is the 0-based row label after reset_index
StartsNewSequence(time, last_time, idx) ==
    time - last_time > GapThreshold \/ idx = 0

\* The loop of lines 98-120 from row k on, then the final block of lines 123-135.
\* st = [aiming_events, current_sequence, last_time, sealed]; sealed lists the
\* sequences handed to calculate_movement_metrics, in order, with the place
\* that sealed each ("gap": inside the loop, "flush": after it).
RECURSIVE SegmentFrom(_, _, _, _, _)
SegmentFrom(move_data, k, st, min_duration, min_distance) ==
    IF k > Len(move_data)
    THEN IF Len(st.current_sequence) > 0
         THEN [st EXCEPT
                 !.aiming_events = @ \o ProcessFinal(st.current_sequence,
                                                     min_duration, min_distance),
                 !.sealed = Append(@, [rows |-> st.current_sequence, by |-> "flush"])]
         ELSE st
    ELSE
    LET row == move_data[k]
        next ==
            IF StartsNewSequence(row.time, st.last_time, k - 1)
            THEN IF Len(st.current_sequence) > 0
                 THEN [st EXCEPT
                         !.aiming_events = @ \o ProcessPrevious(st.current_sequence,
                                                                min_duration, min_distance),
                         !.sealed = Append(@, [rows |-> st.current_sequence, by |-> "gap"]),
                         !.current_sequence = <<row>>,
                         !.last_time = row.time]
                 ELSE [st EXCEPT !.current_sequence = <<row>>, !.last_time = row.time]
            ELSE [st EXCEPT !.current_sequence = Append(@, row), !.last_time = row.time]
    IN  SegmentFrom(move_data, k + 1, next, min_duration, min_distance)

\* lines 94-96: aiming_events = [], current_sequence = [], last_time = 0
Segment(move_data, min_duration, min_distance) ==
    SegmentFrom(move_data, 1,
                [aiming_events |-> <<>>, current_sequence |-> <<>>,
                 last_time |-> 0, sealed |-> <<>>],
                min_duration, min_distance)

(***************************************************************************)
(* MouseDataAnalyzer.categorize_events                                     *)
(***************************************************************************)
RECURSIVE InsertSorted(_, _)
InsertSorted(v, s) ==
    IF s = <<>> THEN <<v>>
    ELSE IF RLe(v, Head(s)) THEN <<v>> \o s
         ELSE <<Head(s)>> \o InsertSorted(v, Tail(s))

RECURSIVE SortAscending(_)
SortAscending(s) ==
    IF s = <<>> THEN <<>> ELSE InsertSorted(Head(s), SortAscending(Tail(s)))

\* np.percentile(values, q), default method 'linear': with the values sorted as
\* a[0..n-1] and h = (n-1)*q/100, the result is a[floor h] + (a[floor h + 1] -
\* a[floor h]) * (h - floor h)
Percentile(values, q) ==
    LET a    == SortAscending(values)
        n    == Len(a)
        lo   == ((n - 1) * q) \div 100
        frac == RSub(Rat((n - 1) * q, 100), FromInt(lo))
    IN  IF lo + 2 > n THEN a[lo + 1]
        ELSE RAdd(a[lo + 1], RMul(RSub(a[lo + 2], a[lo + 1]), frac))

\* lines 150-156
Thresholds(events) ==
    [jitter_threshold |->
        Percentile([i \in 1..Len(events) |-> events[i].jitter_score], JitterPercentile),
     velocity_var_threshold |->
        Percentile([i \in 1..Len(events) |-> events[i].velocity_variance],
                   VelocityVarPercentile),
     efficiency_threshold |->
        Percentile([i \in 1..Len(events) |-> events[i].path_efficiency],
                   EfficiencyPercentile)]

\* IsJittery with >= and <= for > and <
IsJittery_NonStrict(event, th) ==
    \/ RGe(event.jitter_score, th.jitter_threshold)
    \/ RGe(event.velocity_variance, th.velocity_var_threshold)
    \/ RLe(event.path_efficiency, th.efficiency_threshold)

\* lines 160-162
IsJittery(event, th) ==
    \/ RGt(event.jitter_score, th.jitter_threshold)
    \/ RGt(event.velocity_variance, th.velocity_var_threshold)
    \/ RLt(event.path_efficiency, th.efficiency_threshold)

\* CategorizeEvents without the early return on an empty list
CategorizeEvents_NoGuard(events) ==
    [smooth_events  |-> SelectSeq(events, LAMBDA e : ~IsJittery(e, Thresholds(events))),
     jittery_events |-> SelectSeq(events, LAMBDA e : IsJittery(e, Thresholds(events)))]

\* CategorizeEvents with `if is_jittery: ... else: ...` turned into an
\* unconditional append to smooth_events
CategorizeEvents_AlwaysSmooth(events) ==
    IF events = <<>> THEN None
    ELSE [smooth_events  |-> events,
          jittery_events |-> SelectSeq(events, LAMBDA e : IsJittery(e, Thresholds(events)))]

\* the return value of categorize_events on an analyzer whose aiming_events is
\* events: None, or the pair (smooth_events, jittery_events)
CategorizeEvents(events) ==
    IF events = <<>> THEN None
    ELSE LET th == Thresholds(events)
         IN  [smooth_events  |-> SelectSeq(events, LAMBDA e : ~IsJittery(e, th)),
              jittery_events |-> SelectSeq(events, LAMBDA e : IsJittery(e, th))]

(***************************************************************************)
(* The analyzer's methods as functions of the analyzer object              *)
(* an = [data, aiming_events] and of the CSV file's content.               *)
(***************************************************************************)
\* The CSV path: a file pd.read_csv parses into rows, no file at all, or a file
\* pd.read_csv raises on (e.g. one of zero bytes)
Csv(rows) == [status |-> "readable", rows |-> rows]
Missing   == [status |-> "missing", rows |-> <<>>]
Corrupt   == [status |-> "unreadable", rows |-> <<>>]

\* a pandas DataFrame holding the rows of a CSV
DataFrame(rows) == [rows |-> rows]

\* __init__
NewAnalyzer == [data |-> None, aiming_events |-> <<>>]

\* load_data: [an, ret]
LoadData(an, csv) ==
    IF csv.status # "readable"
    THEN [an |-> an, ret |-> FALSE]
    ELSE [an |-> [an EXCEPT !.data = DataFrame(csv.rows)], ret |-> TRUE]

\* IdentifyAimingEvents with self.aiming_events extended instead of assigned
IdentifyAimingEvents_Extend(an, min_duration, min_distance) ==
    IF an.data = None
    THEN {[an |-> an, path |-> "no_data", move_data |-> <<>>, sealed |-> <<>>]}
    ELSE {IF Len(move_data) < MinMoveSamples
          THEN [an |-> an, path |-> "short",
                move_data |-> move_data, sealed |-> <<>>]
          ELSE LET st == Segment(move_data, min_duration, min_distance)
               IN  [an |-> [an EXCEPT !.aiming_events = @ \o st.aiming_events],
                    path |-> "segmented", move_data |-> move_data,
                    sealed |-> st.sealed]
            : move_data \in SortValues(FilterMoves(an.data.rows, 1))}

\* identify_aiming_events: the set of [an, path, move_data, sealed] it can end
\* in; path names the return taken, move_data and sealed are its locals
IdentifyAimingEvents(an, min_duration, min_distance) ==
    IF an.data = None
    THEN {[an |-> an, path |-> "no_data", move_data |-> <<>>, sealed |-> <<>>]}
    ELSE {IF Len(move_data) < MinMoveSamples
          THEN [an |-> an, path |-> "short",
                move_data |-> move_data, sealed |-> <<>>]
          ELSE LET st == Segment(move_data, min_duration, min_distance)
               IN  [an |-> [an EXCEPT !.aiming_events = st.aiming_events],
                    path |-> "segmented", move_data |-> move_data,
                    sealed |-> st.sealed]
            : move_data \in SortValues(FilterMoves(an.data.rows, 1))}

\* generate_report: [ret, report]; report is what it writes to the output
\* file (the three counts; the averages are formatting), None if it writes none
GenerateReport(an) ==
    IF an.aiming_events = <<>>
    THEN [ret |-> None, report |-> None]
    ELSE LET c == CategorizeEvents(an.aiming_events)
         IN  [ret |-> None,
              report |-> [total   |-> Len(an.aiming_events),
                          smooth  |-> Len(c.smooth_events),
                          jittery |-> Len(c.jittery_events)]]

\* analyze_mouse_csv: the set of values it can return, None or the tuple
\* (analyzer, smooth_events, jittery_events)
AnalyzeMouseCsv(csv) ==
    LET loaded == LoadData(NewAnalyzer, csv)
    IN  IF ~loaded.ret THEN {None}
        ELSE {IF r.an.aiming_events = <<>> THEN None
              ELSE LET c == CategorizeEvents(r.an.aiming_events)
                   IN  [analyzer |-> r.an, smooth_events |-> c.smooth_events,
                        jittery_events |-> c.jittery_events,
                        report |-> GenerateReport(r.an).report]
                : r \in IdentifyAimingEvents(loaded.an, PipelineMinDuration,
                                              PipelineMinDistance)}

\* `analyzer, smooth, jittery = analyze_mouse_csv(default_csv)`: unpacking None
\* raises TypeError
Unpack(result) == IF result = None THEN "TypeError" ELSE "unpacked"

\* the __main__ block of analyze_mouse_data.py: how the run ends
AnalyzeMain(csv) ==
    IF csv.status = "missing" THEN {"no_file_message"}
    ELSE {IF Unpack(r) = "TypeError" THEN "TypeError" ELSE "analysis_complete"
            : r \in AnalyzeMouseCsv(csv)}

\* visualize_analysis.main: how the run ends
VisualizeMain(csv) ==
    IF csv.status = "missing" THEN {"no_file_message"}
    ELSE {IF Unpack(r) = "TypeError" THEN "TypeError"
          ELSE IF r.analyzer.aiming_events # <<>> THEN "visualized"
               ELSE "no_events_message"
            : r \in AnalyzeMouseCsv(csv)}

(***************************************************************************)
(* Bounded inputs.  A recording is a chain of bursts; a burst is a list of *)
(* steps <<dt, dx, dy>> from the sample before it (the first sample steps  *)
(* from time 0, position (0,0)).  Every step is a multiple of (3,4), so    *)
(* every distance is a whole number of pixels.                             *)
(***************************************************************************)
MaxRows == 10

Pause   == <<12, 0, 0>>     \* 0.6 s without a sample
Edge2   == <<<<10, 0, 0>>, <<1, 12, 16>>>>               \* led by a gap of exactly 0.5 s
Fast3   == <<Pause, <<1, 12, 16>>, <<1, 12, 16>>>>       \* 0.10 s, 40 px
Long3   == <<Pause, <<5, 18, 24>>, <<5, 36, 48>>>>       \* 0.50 s, 90 px
Tie3    == <<Pause, <<0, 12, 16>>, <<1, 12, 16>>>>       \* 0.05 s, 40 px, dt = 0
Zig4    == <<Pause, <<1, 12, 16>>, <<2, -12, -16>>, <<1, 24, 32>>>>  \* 0.20 s, 80 px
Bursts  == {Edge2, Fast3, Long3, Tie3, Zig4}

RECURSIVE StepLists(_)
StepLists(n) ==
    {<<>>} \cup UNION {{b \o rest : rest \in StepLists(n - Len(b))} :
                          b \in {c \in Bursts : Len(c) <= n}}

RECURSIVE Rows(_, _)
Rows(steps, prev) ==
    IF steps = <<>> THEN <<>>
    ELSE LET row == [time |-> prev.time + Head(steps)[1], event |-> "move",
                     x |-> prev.x + Head(steps)[2], y |-> prev.y + Head(steps)[3]]
         IN  <<row>> \o Rows(Tail(steps), row)

Origin == [time |-> 0, event |-> "move", x |-> 0, y |-> 0]

Reverse(s) == List([i \in 1..Len(s) |-> s[Len(s) + 1 - i]])

\* the first row is a click instead of a move
FirstIsClick(s) ==
    List([i \in 1..Len(s) |-> IF i = 1 THEN [s[i] EXCEPT !.event = "click"] ELSE s[i]])

\* the CSV contents considered: rows in time order, in reverse order of
\* arrival, and with a click among the moves
Chronological == {Rows(steps, Origin) : steps \in StepLists(MaxRows)}
Files ==
    Chronological \cup {Reverse(f) : f \in Chronological}
                  \cup {FirstIsClick(f) : f \in Chronological \ {<<>>}}

(***************************************************************************)
(* State.                                                                  *)
(***************************************************************************)
VARIABLES
    file,           \* content of ~/Documents/MouseLogs/mouse_log.csv
    data,           \* analyzer.data
    aiming_events,  \* analyzer.aiming_events
    ret,            \* the most recent call: its return value, and for
                    \* identify_aiming_events its arguments and locals
    kept,           \* the qualifying sequences written back as a CSV, or None
    run,            \* how the most recent run of an entry point ended
    recording,      \* mouse_tracker.recording
    log_data,       \* mouse_tracker.log_data
    listener,       \* the pynput listener thread: its position and arguments
    hotkey,         \* the keyboard hotkey thread: its position
    clock,          \* time.time()
    stopped         \* a stop_recording call has completed and no
                    \* start_recording has followed

analyzerVars == <<data, aiming_events, ret, kept>>
recorderVars == <<recording, log_data, listener, hotkey, clock, stopped>>
vars == <<file, data, aiming_events, ret, kept, run,
          recording, log_data, listener, hotkey, clock, stopped>>

Analyzer == [data |-> data, aiming_events |-> aiming_events]

InitAnalyzer ==
    /\ data = NewAnalyzer.data
    /\ aiming_events = NewAnalyzer.aiming_events
    /\ ret = [op |-> "__init__"]
    /\ kept = None
    /\ run = [entry |-> "none", outcome |-> "not_run"]

InitRecorder ==
    /\ recording = FALSE
    /\ log_data = <<>>
    /\ listener = [pc |-> "idle"]
    /\ hotkey = [pc |-> "idle"]
    /\ clock = 0
    /\ stopped = FALSE

Init ==
    /\ file \in {Csv(f) : f \in Files} \cup {Missing, Corrupt}
    /\ InitAnalyzer
    /\ InitRecorder

(***************************************************************************)
(* Calls on the analyzer.                                                  *)
(***************************************************************************)
CallLoadData ==
    LET r == LoadData(Analyzer, file)
    IN  /\ data' = r.an.data
        /\ ret' = [op |-> "load_data", val |-> r.ret]
        /\ UNCHANGED <<file, aiming_events, kept, run, recorderVars>>

\* the two argument lists the repository uses: the defaults, and those of
\* analyze_mouse_csv
IdentifyArgs == {<<DefaultMinDuration, DefaultMinDistance>>,
                 <<PipelineMinDuration, PipelineMinDistance>>}

CallIdentifyAimingEvents ==
    \E args \in IdentifyArgs :
    \E r \in IdentifyAimingEvents(Analyzer, args[1], args[2]) :
        /\ aiming_events' = r.an.aiming_events
        /\ ret' = [op |-> "identify_aiming_events", val |-> None,
                   min_duration |-> args[1], min_distance |-> args[2],
                   path |-> r.path, move_data |-> r.move_data, sealed |-> r.sealed]
        /\ UNCHANGED <<file, data, kept, run, recorderVars>>

CallCategorizeEvents ==
    /\ ret' = [op |-> "categorize_events", val |-> CategorizeEvents(aiming_events)]
    /\ UNCHANGED <<file, data, aiming_events, kept, run, recorderVars>>

CallGenerateReport ==
    LET r == GenerateReport(Analyzer)
    IN  /\ ret' = [op |-> "generate_report", val |-> r.ret, report |-> r.report]
        /\ UNCHANGED <<file, data, aiming_events, kept, run, recorderVars>>

\* the sequences of the most recent identify_aiming_events call that became
\* AimingEvents, as rows of a CSV
QualifyingSequences(r) ==
    LET emitted(s) ==
            IF s.by = "gap"
            THEN ProcessPrevious(s.rows, r.min_duration, r.min_distance) # <<>>
            ELSE ProcessFinal(s.rows, r.min_duration, r.min_distance) # <<>>
        q == SelectSeq(r.sealed, emitted)
    IN  [k \in 1..Len(q) |->
            [i \in 1..Len(q[k].rows) |->
                [time |-> q[k].rows[i].time, event |-> "move",
                 x |-> q[k].rows[i].x, y |-> q[k].rows[i].y]]]

\* r records an identify_aiming_events call that ran the loop
Segmentation(r) == r.op = "identify_aiming_events" /\ r.path = "segmented"

RECURSIVE Concat(_)
Concat(seqs) == IF seqs = <<>> THEN <<>> ELSE Head(seqs) \o Concat(Tail(seqs))

\* a caller writes the qualifying sequences of the call just made, in order, to
\* the CSV, to run the analysis on them again
KeepQualifying ==
    /\ Segmentation(ret)
    /\ kept = None
    /\ LET q == QualifyingSequences(ret)
       IN  /\ kept' = [seqs |-> q, min_duration |-> ret.min_duration,
                       min_distance |-> ret.min_distance]
           /\ file' = Csv(Concat(q))
    /\ ret' = [op |-> "write_csv"]
    /\ UNCHANGED <<data, aiming_events, run, recorderVars>>

\* segmentation: load, identify, and analysis of the kept sequences again
Next ==
    \/ CallLoadData
    \/ CallIdentifyAimingEvents
    \/ KeepQualifying

Spec == Init /\ [][Next]_vars

\* classification and reporting of what segmentation found
InitClassify ==
    /\ file \in {Csv(f) : f \in Chronological}
    /\ InitAnalyzer
    /\ InitRecorder

NextClassify ==
    \/ CallLoadData
    \/ CallIdentifyAimingEvents
    \/ CallCategorizeEvents
    \/ CallGenerateReport

SpecClassify == InitClassify /\ [][NextClassify]_vars

(***************************************************************************)
(* The entry points: one run of a script on the file as it is.             *)
(***************************************************************************)
RunAnalyzeMain ==
    /\ \E outcome \in AnalyzeMain(file) :
            run' = [entry |-> "analyze_mouse_data", outcome |-> outcome]
    /\ UNCHANGED <<file, analyzerVars, recorderVars>>

RunVisualizeMain ==
    /\ \E outcome \in VisualizeMain(file) :
            run' = [entry |-> "visualize_analysis", outcome |-> outcome]
    /\ UNCHANGED <<file, analyzerVars, recorderVars>>

NextMain ==
    \/ RunAnalyzeMain
    \/ RunVisualizeMain

SpecMain == Init /\ [][NextMain]_vars

(***************************************************************************)
(* The recorder, src/mouse_tracker.py.  Two threads share recording and    *)
(* log_data: the pynput listener thread runs on_move / on_click one call   *)
(* at a time, the keyboard thread runs the hotkey handlers one call at a   *)
(* time.  A thread switch can fall between any two statements.  The        *)
(* columns button and pressed, which nothing modelled reads, are left out. *)
(***************************************************************************)
MaxLog   == 3      \* entries logged in one run of the model
MaxClock == 2      \* readings of time.time()

Positions == {0, 5}

\* the clock advances between two readings
Tick ==
    /\ hotkey.pc # "exited"
    /\ clock < MaxClock
    /\ clock' = clock + 1
    /\ UNCHANGED <<file, analyzerVars, run, recording, log_data, listener, hotkey, stopped>>

\* on_move, line 29: `if recording:`
OnMove ==
    /\ hotkey.pc # "exited"
    /\ listener.pc = "idle"
    /\ Len(log_data) < MaxLog
    /\ \E x \in Positions :
            listener' = IF recording
                        THEN [pc |-> "log_event", event_type |-> "move", x |-> x, y |-> 0]
                        ELSE listener
    /\ UNCHANGED <<file, analyzerVars, run, recording, log_data, hotkey, clock, stopped>>

\* on_click, line 33: `if recording:`
OnClick ==
    /\ hotkey.pc # "exited"
    /\ listener.pc = "idle"
    /\ Len(log_data) < MaxLog
    /\ \E x \in Positions :
            listener' = IF recording
                        THEN [pc |-> "log_event", event_type |-> "click", x |-> x, y |-> 0]
                        ELSE listener
    /\ UNCHANGED <<file, analyzerVars, run, recording, log_data, hotkey, clock, stopped>>

\* log_event, lines 18-26, called from on_move / on_click
LogEvent ==
    /\ hotkey.pc # "exited"
    /\ listener.pc = "log_event"
    /\ log_data' = Append(log_data, [time |-> clock, event |-> listener.event_type,
                                     x |-> listener.x, y |-> listener.y])
    /\ listener' = [pc |-> "idle"]
    /\ UNCHANGED <<file, analyzerVars, run, recording, hotkey, clock, stopped>>

\* start_recording
StartRecording ==
    /\ hotkey.pc = "idle"
    /\ recording' = TRUE
    /\ stopped' = IF recording THEN stopped ELSE FALSE
    /\ UNCHANGED <<file, analyzerVars, run, log_data, listener, hotkey, clock>>

\* stop_recording, lines 55-56: `if recording: recording = False`
StopRecording ==
    /\ hotkey.pc = "idle"
    /\ IF recording
       THEN /\ recording' = FALSE
            /\ hotkey' = [pc |-> "save_log", then |-> "stop_recording"]
       ELSE UNCHANGED <<recording, hotkey>>
    /\ UNCHANGED <<file, analyzerVars, run, log_data, listener, clock, stopped>>

\* quit_app, lines 64-65: `if recording: save_log()`, else straight to os._exit
QuitApp ==
    /\ hotkey.pc = "idle"
    /\ hotkey' = IF recording
                 THEN [pc |-> "save_log", then |-> "quit_app"]
                 ELSE [pc |-> "exited"]
    /\ UNCHANGED <<file, analyzerVars, run, recording, log_data, listener, clock, stopped>>

\* save_log, lines 37-41: open(OUTPUT_FILE, "w") truncates, then the header
SaveLogOpen ==
    /\ hotkey.pc = "save_log"
    /\ file' = Csv(<<>>)
    /\ hotkey' = [pc |-> "write_rows", then |-> hotkey.then, i |-> 1]
    /\ UNCHANGED <<analyzerVars, run, recording, log_data, listener, clock, stopped>>

\* save_log, lines 42-43: one round of `for entry in log_data`, which reads the
\* list by index, so an entry appended during the loop is still written
SaveLogWriteRow ==
    /\ hotkey.pc = "write_rows"
    /\ hotkey.i <= Len(log_data)
    /\ file' = Csv(Append(file.rows, log_data[hotkey.i]))
    /\ hotkey' = [hotkey EXCEPT !.i = @ + 1]
    /\ UNCHANGED <<analyzerVars, run, recording, log_data, listener, clock, stopped>>

\* the loop of save_log ends, the file is closed, and the handler returns
\* (stop_recording, lines 58) or exits the process (quit_app, line 68)
SaveLogClose ==
    /\ hotkey.pc = "write_rows"
    /\ hotkey.i > Len(log_data)
    /\ hotkey' = IF hotkey.then = "quit_app" THEN [pc |-> "exited"] ELSE [pc |-> "idle"]
    /\ stopped' = IF hotkey.then = "stop_recording" THEN TRUE ELSE stopped
    /\ UNCHANGED <<file, analyzerVars, run, recording, log_data, listener, clock>>

InitRecord ==
    /\ file = Missing
    /\ InitAnalyzer
    /\ InitRecorder

NextRecord ==
    \/ Tick
    \/ OnMove
    \/ OnClick
    \/ LogEvent
    \/ StartRecording
    \/ StopRecording
    \/ QuitApp
    \/ SaveLogOpen
    \/ SaveLogWriteRow
    \/ SaveLogClose

SpecRecord == InitRecord /\ [][NextRecord]_vars

(***************************************************************************)
(* The properties.                                                         *)
(***************************************************************************)
Range(s) == {s[i] : i \in 1..Len(s)}
HalfSecond == TicksPerSecond \div 2
Gaps(rows) == [i \in 1..(Len(rows) - 1) |-> rows[i + 1].time - rows[i].time]

\* the most recent call was an identify_aiming_events that ran the loop
Segmented == Segmentation(ret)

SealedRows == [k \in 1..Len(ret.sealed) |-> ret.sealed[k].rows]

\* the row numbers of move_data at which the sealed sequences begin
SealedStarts ==
    {1 + ISum([j \in 1..(k - 1) |-> Len(ret.sealed[j].rows)]) : k \in 1..Len(ret.sealed)}

LongGaps == {i \in 1..(Len(ret.move_data) - 1) : Gaps(ret.move_data)[i] > HalfSecond}

Qualifies(rows, min_duration, min_distance) ==
    /\ Len(rows) >= 3
    /\ rows[Len(rows)].time - rows[1].time >= min_duration
    /\ ISum(StepLengths(rows)) >= min_distance

QualifyingSealed ==
    SelectSeq(ret.sealed,
              LAMBDA s : Qualifies(s.rows, ret.min_duration, ret.min_distance))

C3_ShortDataLeavesNoEvents ==
    (ret.op = "identify_aiming_events" /\ ret.path = "short") => aiming_events = <<>>

\* a sample without its labels: the values the CSV holds for a move
Sample(r) == <<r.time, r.x, r.y>>
Samples(rows) == [i \in 1..Len(rows) |-> Sample(rows[i])]
Count(seq, v) == Cardinality({i \in 1..Len(seq) : seq[i] = v})
SameSamples(a, b) ==
    /\ Len(a) = Len(b)
    /\ \A v \in Range(a) \cup Range(b) : Count(a, v) = Count(b, v)
DistinctTimes(rows) == \A i \in 1..(Len(rows) - 1) : rows[i].time < rows[i + 1].time

\* the most recent call was identify_aiming_events, with the arguments of the
\* first run, on the frame made of the sequences kept from the first run
Rerun ==
    /\ kept # None
    /\ ret.op = "identify_aiming_events"
    /\ data = DataFrame(Concat(kept.seqs))
    /\ ret.min_duration = kept.min_duration
    /\ ret.min_distance = kept.min_distance

\* the qualifying sequences the most recent identify_aiming_events call produced
Produced == IF ret.path = "segmented" THEN QualifyingSequences(ret) ELSE <<>>

C9_SortIsStable ==
    Segmented =>
        \A i, j \in 1..Len(ret.move_data) :
            i < j => /\ ret.move_data[i].time <= ret.move_data[j].time
                     /\ ret.move_data[i].time = ret.move_data[j].time
                            => ret.move_data[i].pos < ret.move_data[j].pos

\* the most recent call was categorize_events on a non-empty batch
Categorized == ret.op = "categorize_events" /\ aiming_events # <<>>

\* the k-th smallest of a list of values
KthSmallest(values, k) ==
    CHOOSE v \in Range(values) :
        /\ Cardinality({i \in 1..Len(values) : RLt(values[i], v)}) < k
        /\ Cardinality({i \in 1..Len(values) : RLe(values[i], v)}) >= k

\* the q-th percentile by linear interpolation between closest ranks
LinearPercentile(values, q) ==
    LET h  == (Len(values) - 1) * q
        lo == KthSmallest(values, h \div 100 + 1)
    IN  IF h % 100 = 0 THEN lo
        ELSE RAdd(lo, RMul(RSub(KthSmallest(values, h \div 100 + 2), lo),
                           Rat(h % 100, 100)))

Column(name) == [i \in 1..Len(aiming_events) |-> aiming_events[i][name]]

JitteryByTheRule(e) ==
    \/ RGt(e.jitter_score, LinearPercentile(Column("jitter_score"), 70))
    \/ RGt(e.velocity_variance, LinearPercentile(Column("velocity_variance"), 70))
    \/ RLt(e.path_efficiency, LinearPercentile(Column("path_efficiency"), 30))

\* C4: with the thresholds taken over the whole batch (70th percentile of
\* jitter_score and of velocity_variance, 30th of path_efficiency, linear
\* interpolation), an event is in the Jittery list iff it is strictly above
\* one of the first two or strictly below the third, and in the Smooth list
\* otherwise; a batch of one event is labeled Smooth.
C4_JitteryIffBeyondAThreshold ==
    Categorized =>
        /\ \A i \in 1..Len(aiming_events) :
              LET e == aiming_events[i]
              IN  /\ e \in Range(ret.val.jittery_events) <=> JitteryByTheRule(e)
                  /\ e \in Range(ret.val.smooth_events) <=> ~JitteryByTheRule(e)
        /\ Len(aiming_events) = 1 =>
              /\ ret.val.smooth_events = aiming_events
              /\ ret.val.jittery_events = <<>>

\* a batch of two events or more in which one is Jittery and a Smooth one has
\* a path_efficiency equal to the efficiency threshold
C4_Witness ==
    /\ Categorized
    /\ Len(aiming_events) >= 2
    /\ ret.val.jittery_events # <<>>
    /\ \E e \in Range(ret.val.smooth_events) :
          e.path_efficiency = LinearPercentile(Column("path_efficiency"), 30)

IsSubsequenceOf(part, whole) ==
    part = SelectSeq(whole, LAMBDA e : e \in Range(part))

\* C5: a categorize_events call on a non-empty batch of N events returns two
\* lists whose lengths add up to N, every event in exactly one of them, each
\* list in the order of the batch; the call leaves aiming_events as it was, and
\* a second call in a row returns what the first returned.
C5_PartitionKeepsEveryEventOnce ==
    [][CallCategorizeEvents /\ aiming_events # <<>> =>
          /\ aiming_events' = aiming_events
          /\ Len(ret'.val.smooth_events) + Len(ret'.val.jittery_events)
                = Len(aiming_events)
          /\ \A e \in Range(aiming_events) :
                (e \in Range(ret'.val.smooth_events))
                    # (e \in Range(ret'.val.jittery_events))
          /\ IsSubsequenceOf(ret'.val.smooth_events, aiming_events)
          /\ IsSubsequenceOf(ret'.val.jittery_events, aiming_events)
          /\ ret.op = "categorize_events" => ret'.val = ret.val]_vars

\* a batch of two events or more split into two non-empty lists
C5_Witness ==
    /\ Categorized
    /\ Len(ret.val.smooth_events) >= 2
    /\ Len(ret.val.jittery_events) >= 1

\* C6: on an analyzer without events, categorize_events returns None, not a
\* pair of lists, and generate_report writes no report.
C6_EmptyBatchIsRefused ==
    aiming_events = <<>> =>
        /\ ret.op = "categorize_events" => ret.val = None
        /\ ret.op = "generate_report" => ret.report = None

\* categorize_events called after a segmentation that found no event
C6_Witness ==
    /\ ret.op = "categorize_events"
    /\ aiming_events = <<>>
    /\ data # None
    /\ Len(data.rows) >= MinMoveSamples

\* C7: no run of an entry point ends in a thrown fault.
C7_RunsEndWithAStatus ==
    run.outcome # "TypeError"

\* C10: between a completed stop_recording and the next start_recording the
\* file holds every entry of log_data.
C10_StopSavedEveryEntry ==
    stopped => file = Csv(log_data)

=============================================================================
